---- MODULE Spec2Model ----
(***************************************************************************)
(* irclog2html: the log search engine (irclogsearch.py) and the WSGI log   *)
(* server (irclogserver.py).                                               *)
(*                                                                         *)
(* Text is modelled as a sequence of one-character strings, so that        *)
(* lower(), `in`, endswith() and slicing are computed character by         *)
(* character.  A date token YYYY-MM-DD of a file name is abbreviated to    *)
(* one digit character ("1" is the oldest day).                            *)
(***************************************************************************)
EXTENDS Integers, Sequences, FiniteSets, TLC

VARIABLES
    fs,          \* the base directory (IRCLOG_LOCATION): name -> [present, events]
    cssPresent,  \* whether the stylesheet asset CSS_FILE can be opened
    gen,         \* search_irc_logs generator frames, one per run
    stats,       \* the SearchStats object handed to each run
    yielded,     \* the results each run's consumer has pulled so far
    req,         \* the WSGI request handled last
    resp,        \* what application() did with it
    pres         \* the frame of print_search_results

vars == <<fs, cssPresent, gen, stats, yielded, req, resp, pres>>

-----------------------------------------------------------------------------
(* Bounds *)

\* the most events the transcripts of one corpus hold together
MaxEvents == 2
\* the most entries present in the base directory of the server
MaxPresent == 2

\* the longest result stream print_search_results is driven with
MaxShown == 4

-----------------------------------------------------------------------------
(* Text *)

Empty == << >>

\* unicode.lower() on the characters the model uses
LowerChar(c) ==
    CASE c = "A" -> "a"
      [] c = "B" -> "b"
      [] c = "C" -> "c"
      [] c = "G" -> "g"
      [] c = "L" -> "l"
      [] c = "O" -> "o"
      [] c = "S" -> "s"
      [] c = "W" -> "w"
      [] OTHER -> c

Lower(s) == [i \in 1..Len(s) |-> LowerChar(s[i])]

\* str.__contains__: `q in t`
Contains(q, t) ==
    \E i \in 0..(Len(t) - Len(q)) : SubSeq(t, i + 1, i + Len(q)) = q

EndsWith(s, suf) ==
    /\ Len(s) >= Len(suf)
    /\ SubSeq(s, Len(s) - Len(suf) + 1, Len(s)) = suf

HasChar(s, c) == \E i \in 1..Len(s) : s[i] = c

Reverse(s) == [i \in 1..Len(s) |-> s[Len(s) + 1 - i]]

-----------------------------------------------------------------------------
(* File names of the base directory *)

DotLog  == <<".", "l", "o", "g">>
DotTxt  == <<".", "t", "x", "t">>
DotCss  == <<".", "c", "s", "s">>
DotHtml == <<".", "h", "t", "m", "l">>

N_log1      == <<"1">> \o DotLog
N_log2      == <<"2">> \o DotLog
N_log2b     == <<"b", "2">> \o DotLog
N_nodate    == <<"x">> \o DotLog
N_txt3      == <<"3">> \o DotTxt
N_log1html  == N_log1 \o DotHtml
N_index     == <<"i", "n", "d", "e", "x">>
N_indexhtml == N_index \o DotHtml
N_css       == <<"a">> \o DotCss
N_CSS       == <<"a", ".", "C", "S", "S">>
N_search    == <<"s", "e", "a", "r", "c", "h">>
N_irclogcss == <<"i", "r", "c", "l", "o", "g">> \o DotCss

\* the names that can hold transcripts in the search corpus
DatedLogs == {N_log1, N_log2, N_log2b}
CorpusNames == DatedLogs \cup {N_nodate, N_txt3}

Names == CorpusNames \cup
         {N_log1html, N_index, N_indexhtml, N_css, N_CSS, N_search, N_irclogcss}

\* a fixed order of the names: the order sorted() gives equal dates
NameOrder ==
    <<N_log1, N_log2, N_txt3, N_CSS, N_css, N_log2b, N_index, N_indexhtml,
      N_irclogcss, N_log1html, N_search, N_nodate>>

NameRank(n) == CHOOSE i \in 1..Len(NameOrder) : NameOrder[i] = n

-----------------------------------------------------------------------------
(* Transcripts: the events LogParser produces, one per line *)

Nick_Al == <<"A", "l">>
Nick_Bo == <<"B", "o">>
T_bo    == <<"b", "o">>
T_now   == <<"n", "o", "w">>
T_Boin  == <<"B", "o", " ", "i", "n">>

\* LogParser.COMMENT: info is (nick, text)
EvComment == [kind |-> "COMMENT", info |-> <<Nick_Al, T_bo>>]
\* LogParser.NICKCHANGE: info is (text, oldnick, newnick)
EvNick    == [kind |-> "NICKCHANGE", info |-> <<T_now, Nick_Al, Nick_Bo>>]
\* any other event (JOIN, ACTION, ...): info is the text
EvJoin    == [kind |-> "JOIN", info |-> T_Boin]

EventPool == {EvComment, EvNick, EvJoin}

T_hi == <<"h", "i">>

\* a COMMENT by the other nick, and the NICKCHANGE back
EvCommentBo == [kind |-> "COMMENT", info |-> <<Nick_Bo, T_hi>>]
EvNickBack  == [kind |-> "NICKCHANGE", info |-> <<T_now, Nick_Bo, Nick_Al>>]

ShownPool == {EvComment, EvCommentBo, EvNick, EvNickBack, EvJoin}

\* the rows of one transcript; the timestamp of a row is its line number
Stamp(es) ==
    [i \in 1..Len(es) |-> [time |-> i, kind |-> es[i].kind, info |-> es[i].info]]

Contents(n) == UNION {[1..k -> EventPool] : k \in 0..n}

ShownContents(n) == UNION {[1..k -> ShownPool] : k \in 0..n}

FixedEvents == Stamp(<<EvComment, EvNick, EvJoin>>)

Absent == [present |-> FALSE, events |-> Empty]

File(es) == [present |-> TRUE, events |-> es]

\* the queries a search is called with
Q_empty == Empty
Q_LB    == <<"L", " ", "B">>
Q_bo    == <<"b", "o">>
Q_oW    == <<"o", "W">>

Queries == {Q_empty, Q_LB, Q_bo, Q_oW}

-----------------------------------------------------------------------------
(* logs2html.find_log_files and LogFile *)

Digits == {"1", "2", "3"}

DigitValue(c) == CASE c = "1" -> 1 [] c = "2" -> 2 [] c = "3" -> 3

\* LogFile.date: the last date token of the name, 0 when it has none
DateOf(n) ==
    IF \E i \in 1..Len(n) : n[i] \in Digits
    THEN LET last == CHOOSE i \in 1..Len(n) :
                         /\ n[i] \in Digits
                         /\ \A j \in (i + 1)..Len(n) : n[j] \notin Digits
         IN  DigitValue(n[last])
    ELSE 0

\* LogFile.link
LinkOf(n) == n \o DotHtml

\* glob.glob(os.path.join(where, "*.log"))
GlobMatch(n) == EndsWith(n, DotLog) /\ n[1] # "."

FileBefore(a, b) ==
    \/ DateOf(a) < DateOf(b)
    \/ DateOf(a) = DateOf(b) /\ NameRank(a) <= NameRank(b)

RECURSIVE SortFiles(_)
SortFiles(S) ==
    IF S = {} THEN Empty
    ELSE LET m == CHOOSE x \in S : \A y \in S : FileBefore(x, y)
         IN  <<m>> \o SortFiles(S \ {m})

\* the dated files matching the pattern, oldest first
find_log_files(fsys) ==
    SortFiles({n \in Names : fsys[n].present /\ GlobMatch(n) /\ DateOf(n) # 0})

-----------------------------------------------------------------------------
(* irclogsearch.search_irc_logs *)

Runs == {1, 2}

NoResult == [filename |-> Empty]

NewStats == [files |-> 0, lines |-> 0, matches |-> 0]

\* arg is the query as the caller passed it; query is the local variable
IdleGen == [pc |-> "idle", arg |-> Empty, query |-> Empty, files |-> Empty,
            fi |-> 0, ei |-> 0, open |-> {}]

FlattenTextOnly(kind, info) ==
    IF kind = "COMMENT" THEN info[2]
    ELSE IF kind = "NICKCHANGE" THEN info[1]
    ELSE info

\* the text an event is matched by
Flatten(kind, info) ==
    IF kind = "COMMENT" THEN info[1] \o <<" ">> \o info[2]
    ELSE IF kind = "NICKCHANGE" THEN info[1]
    ELSE info

\* query in text.lower()
Matches(query, kind, info) == Contains(query, Lower(Flatten(kind, info)))

StartFilesOldestFirst(fsys) == find_log_files(fsys)

\* files = find_log_files(...); files.reverse()
StartFiles(fsys) == Reverse(find_log_files(fsys))

IncFilesNot(st) == st

IncFiles(st) == [st EXCEPT !.files = @ + 1]

IncLines(st) == [st EXCEPT !.lines = @ + 1]

IncMatchesNot(st) == st

IncMatches(st) == [st EXCEPT !.matches = @ + 1]

SearchResult(n, ev) ==
    [filename |-> n, link |-> LinkOf(n), date |-> DateOf(n),
     time |-> ev.time, event |-> ev.kind, info |-> ev.info]

GenStepLeak(m, fsys) ==
    LET g == m.g
        f == g.files[g.fi]
    IN  CASE g.pc = "created" ->
               [m EXCEPT !.g = [g EXCEPT !.query = Lower(g.query),
                                         !.files = StartFiles(fsys),
                                         !.pc = "nextfile"]]
          [] g.pc = "nextfile" ->
               IF g.fi < Len(g.files)
               THEN [m EXCEPT !.g = [g EXCEPT !.fi = @ + 1, !.pc = "open"],
                              !.st = IncFiles(m.st)]
               ELSE [m EXCEPT !.g = [g EXCEPT !.pc = "done"]]
          [] g.pc = "open" ->
               [m EXCEPT !.g = [g EXCEPT !.open = @ \cup {f}, !.ei = 0,
                                         !.pc = "events"]]
          [] g.pc = "events" ->
               IF g.ei < Len(fsys[f].events)
               THEN LET ev == fsys[f].events[g.ei + 1]
                        st1 == IncLines(m.st)
                    IN  IF Matches(g.query, ev.kind, ev.info)
                        THEN [g |-> [g EXCEPT !.ei = @ + 1, !.pc = "yield"],
                              st |-> IncMatches(st1),
                              out |-> SearchResult(f, ev)]
                        ELSE [m EXCEPT !.g = [g EXCEPT !.ei = @ + 1],
                                       !.st = st1]
               ELSE [m EXCEPT !.g = [g EXCEPT !.pc = "nextfile"]]

GenStepEager(m, fsys) ==
    LET g == m.g
        f == g.files[g.fi]
    IN  CASE g.pc = "created" ->
               [m EXCEPT !.g = [g EXCEPT !.query = Lower(g.query),
                                         !.files = StartFiles(fsys),
                                         !.pc = "nextfile"]]
          [] g.pc = "nextfile" ->
               IF g.fi < Len(g.files)
               THEN [m EXCEPT !.g = [g EXCEPT !.fi = @ + 1, !.pc = "open"],
                              !.st = IncFiles(m.st)]
               ELSE [m EXCEPT !.g = [g EXCEPT !.pc = "done"]]
          [] g.pc = "open" ->
               [m EXCEPT !.g = [g EXCEPT !.open = @ \cup {f}, !.ei = 0,
                                         !.pc = "events"],
                         !.st = [@ EXCEPT !.lines = @ + Len(fsys[f].events)]]
          [] g.pc = "events" ->
               IF g.ei < Len(fsys[f].events)
               THEN LET ev == fsys[f].events[g.ei + 1]
                    IN  IF Matches(g.query, ev.kind, ev.info)
                        THEN [g |-> [g EXCEPT !.ei = @ + 1, !.pc = "yield"],
                              st |-> IncMatches(m.st),
                              out |-> SearchResult(f, ev)]
                        ELSE [m EXCEPT !.g = [g EXCEPT !.ei = @ + 1]]
               ELSE [m EXCEPT !.g = [g EXCEPT !.open = @ \ {f},
                                              !.pc = "nextfile"]]

\* one step of the generator body; m = [g: the frame, st: the stats, out: the
\* value of the yield reached]
GenStep(m, fsys) ==
    LET g == m.g
        f == g.files[g.fi]
    IN  CASE g.pc = "created" ->
               [m EXCEPT !.g = [g EXCEPT !.query = Lower(g.query),
                                         !.files = StartFiles(fsys),
                                         !.pc = "nextfile"]]
          [] g.pc = "nextfile" ->
               IF g.fi < Len(g.files)
               THEN [m EXCEPT !.g = [g EXCEPT !.fi = @ + 1, !.pc = "open"],
                              !.st = IncFiles(m.st)]
               ELSE [m EXCEPT !.g = [g EXCEPT !.pc = "done"]]
          [] g.pc = "open" ->
               [m EXCEPT !.g = [g EXCEPT !.open = @ \cup {f}, !.ei = 0,
                                         !.pc = "events"]]
          [] g.pc = "events" ->
               IF g.ei < Len(fsys[f].events)
               THEN LET ev == fsys[f].events[g.ei + 1]
                        st1 == IncLines(m.st)
                    IN  IF Matches(g.query, ev.kind, ev.info)
                        THEN [g |-> [g EXCEPT !.ei = @ + 1, !.pc = "yield"],
                              st |-> IncMatches(st1),
                              out |-> SearchResult(f, ev)]
                        ELSE [m EXCEPT !.g = [g EXCEPT !.ei = @ + 1],
                                       !.st = st1]
               ELSE [m EXCEPT !.g = [g EXCEPT !.open = @ \ {f},
                                              !.pc = "nextfile"]]

\* next(generator): run the body to its next yield or to its end
RECURSIVE RunToYield(_, _)
RunToYield(m, fsys) ==
    IF m.g.pc \in {"yield", "done"} THEN m
    ELSE RunToYield(GenStep(m, fsys), fsys)

Resume(g) == IF g.pc = "yield" THEN [g EXCEPT !.pc = "events"] ELSE g

\* search_irc_logs(query, stats): creates the generator; its body has not run
SearchCall(r, q) ==
    /\ gen[r].pc \in {"idle", "done", "closed"}
    /\ gen' = [gen EXCEPT ![r] = [IdleGen EXCEPT !.pc = "created", !.arg = q,
                                                  !.query = q]]
    /\ stats' = [stats EXCEPT ![r] = NewStats]
    /\ yielded' = [yielded EXCEPT ![r] = Empty]
    /\ UNCHANGED <<fs, cssPresent, req, resp, pres>>

PullSharedStats(r) ==
    /\ gen[r].pc \in {"created", "yield"}
    /\ LET m == RunToYield([g |-> Resume(gen[r]), st |-> stats[r],
                            out |-> NoResult], fs)
       IN  /\ gen' = [gen EXCEPT ![r] = m.g]
           /\ stats' = [x \in Runs |-> m.st]
           /\ yielded' = [yielded EXCEPT ![r] =
                            IF m.g.pc = "yield" THEN Append(@, m.out) ELSE @]
    /\ UNCHANGED <<fs, cssPresent, req, resp, pres>>

\* the consumer pulls the next result
Pull(r) ==
    /\ gen[r].pc \in {"created", "yield"}
    /\ LET m == RunToYield([g |-> Resume(gen[r]), st |-> stats[r],
                            out |-> NoResult], fs)
       IN  /\ gen' = [gen EXCEPT ![r] = m.g]
           /\ stats' = [stats EXCEPT ![r] = m.st]
           /\ yielded' = [yielded EXCEPT ![r] =
                            IF m.g.pc = "yield" THEN Append(@, m.out) ELSE @]
    /\ UNCHANGED <<fs, cssPresent, req, resp, pres>>

\* the consumer stops pulling and drops the generator: GeneratorExit unwinds
\* the `with closing(...)` of parse_log_file
GenClose(r) ==
    /\ gen[r].pc \in {"created", "yield"}
    /\ gen' = [gen EXCEPT ![r] = [@ EXCEPT !.pc = "closed", !.open = {}]]
    /\ UNCHANGED <<fs, cssPresent, stats, yielded, req, resp, pres>>

NoRequest == [path_info |-> <<"-">>, q |-> <<"-">>]



-----------------------------------------------------------------------------
(* irclogsearch.print_search_form, print_search_results, search_page *)

None == <<"None">>

Tok(t) == [t |-> t]

\* print_search_form
print_search_form ==
    <<Tok("HEADER"), Tok("<h1>Search IRC logs</h1>"), Tok("<form>"),
      Tok("FOOTER")>>

\* irclog2html.NickColourizer: colours[nick] is the colour of a nick, 0 when
\* it has none yet; count is the number of colours handed out
Nicks == {Nick_Al, Nick_Bo}

NewColourizer == [colours |-> [n \in Nicks |-> 0], count |-> 0]

\* NickColourizer.__getitem__: a nick without a colour is given the next one
ColourFor(c, nick) ==
    IF c.colours[nick] # 0 THEN c
    ELSE [colours |-> [c.colours EXCEPT ![nick] = c.count + 1],
          count |-> c.count + 1]

\* NickColourizer.change: the colour of oldnick goes to newnick
ChangeNick(c, oldnick, newnick) ==
    IF c.colours[oldnick] # 0 /\ oldnick # newnick
    THEN [c EXCEPT !.colours = [@ EXCEPT ![newnick] = c.colours[oldnick],
                                         ![oldnick] = 0]]
    ELSE c

\* SearchResultFormatter(stream): a new style and a new NickColourizer
NewPresenter(out) ==
    [date |-> 0, prev |-> NoResult, out |-> out,
     nick_colour |-> NewColourizer, shown |-> Empty]

\* print_search_results before it is called; p is the formatter and the
\* locals of the call, page is the whole document once it is finished
NoPresenter == [pc |-> "idle", p |-> NewPresenter(Empty), page |-> Empty]

print_html_render_first(p, result) ==
    IF result.event = "COMMENT"
    THEN LET c == ColourFor(p.nick_colour, result.info[1])
         IN  [p EXCEPT !.nick_colour = c,
                       !.out = Append(@, [t |-> "event", call |-> "nicktext",
                                          time |-> result.time,
                                          text |-> result.info[2],
                                          colour |-> c.colours[result.info[1]],
                                          link |-> result.link]),
                       !.shown = Append(@, [result |-> result,
                                            colours |-> c.colours,
                                            colour |-> c.colours[result.info[1]]])]
    ELSE LET c == IF result.event = "NICKCHANGE"
                  THEN ChangeNick(p.nick_colour, result.info[2], result.info[3])
                  ELSE p.nick_colour
             text == IF result.event = "NICKCHANGE" THEN result.info[1]
                     ELSE result.info
         IN  [p EXCEPT !.nick_colour = c,
                       !.out = Append(@, [t |-> "event", call |-> "servermsg",
                                          time |-> result.time,
                                          text |-> text,
                                          colour |-> 0,
                                          link |-> result.link]),
                       !.shown = Append(@, [result |-> result,
                                            colours |-> p.nick_colour.colours,
                                            colour |-> 0])]

\* SearchResultFormatter.print_html; shown records each call: the result,
\* the colour map it was rendered with, and the colour passed to the style
print_html(p, result) ==
    IF result.event = "COMMENT"
    THEN LET c == ColourFor(p.nick_colour, result.info[1])
         IN  [p EXCEPT !.nick_colour = c,
                       !.out = Append(@, [t |-> "event", call |-> "nicktext",
                                          time |-> result.time,
                                          text |-> result.info[2],
                                          colour |-> c.colours[result.info[1]],
                                          link |-> result.link]),
                       !.shown = Append(@, [result |-> result,
                                            colours |-> c.colours,
                                            colour |-> c.colours[result.info[1]]])]
    ELSE LET c == IF result.event = "NICKCHANGE"
                  THEN ChangeNick(p.nick_colour, result.info[2], result.info[3])
                  ELSE p.nick_colour
             text == IF result.event = "NICKCHANGE" THEN result.info[1]
                     ELSE result.info
         IN  [p EXCEPT !.nick_colour = c,
                       !.out = Append(@, [t |-> "event", call |-> "servermsg",
                                          time |-> result.time,
                                          text |-> text,
                                          colour |-> 0,
                                          link |-> result.link]),
                       !.shown = Append(@, [result |-> result,
                                            colours |-> c.colours,
                                            colour |-> 0])]

DateBoundaryResetColours(p, result) ==
    LET p1 == IF p.prev # NoResult
              THEN [p EXCEPT !.out = Append(@, Tok("suffix")), !.prev = NoResult]
              ELSE p
        p2 == IF p1.date # 0
              THEN [p1 EXCEPT !.out = Append(@, Tok("</li>"))]
              ELSE [p1 EXCEPT !.out = Append(@, Tok("<ul>"))]
    IN  [p2 EXCEPT !.out = Append(@, [t |-> "<li>", link |-> result.link,
                                      date |-> result.date]),
                   !.date = result.date,
                   !.nick_colour = NewColourizer]

DateBoundaryPerResult(p, result) ==
    LET p1 == IF p.prev # NoResult
              THEN [p EXCEPT !.out = Append(@, Tok("suffix")), !.prev = NoResult]
              ELSE p
        p2 == IF p1.date # 0
              THEN [p1 EXCEPT !.out = Append(@, Tok("</li>"))]
              ELSE [p1 EXCEPT !.out = Append(@, Tok("<ul>"))]
    IN  [p2 EXCEPT !.out = Append(@, [t |-> "<li>", link |-> result.link,
                                      date |-> result.date]),
                   !.date = result.date + result.time]

\* the part of the loop body that runs when the date changes
DateBoundary(p, result) ==
    LET p1 == IF p.prev # NoResult
              THEN [p EXCEPT !.out = Append(@, Tok("suffix")), !.prev = NoResult]
              ELSE p
        p2 == IF p1.date # 0
              THEN [p1 EXCEPT !.out = Append(@, Tok("</li>"))]
              ELSE [p1 EXCEPT !.out = Append(@, Tok("<ul>"))]
    IN  [p2 EXCEPT !.out = Append(@, [t |-> "<li>", link |-> result.link,
                                      date |-> result.date]),
                   !.date = result.date]

\* the body of `for result in search_irc_logs(...)`
PresentResult(p, result) ==
    LET p1 == IF p.date # result.date THEN DateBoundary(p, result) ELSE p
        p2 == IF p1.prev = NoResult
              THEN [p1 EXCEPT !.out = Append(@, Tok("prefix"))]
              ELSE p1
    IN  [print_html(p2, result) EXCEPT !.prev = result]

PresentEndNoSuffix(p, st) ==
    LET p2 == IF p.date # 0
              THEN [p EXCEPT !.out = @ \o <<Tok("</li>"), Tok("</ul>")>>]
              ELSE p
    IN  p2.out \o <<[t |-> "stats", matches |-> st.matches,
                     files |-> st.files, lines |-> st.lines],
                    Tok("FOOTER")>>

\* what follows the loop: close the markup, print the statistics
PresentEnd(p, st) ==
    LET p1 == IF p.prev # NoResult
              THEN [p EXCEPT !.out = Append(@, Tok("suffix"))]
              ELSE p
        p2 == IF p1.date # 0
              THEN [p1 EXCEPT !.out = @ \o <<Tok("</li>"), Tok("</ul>")>>]
              ELSE p1
    IN  p2.out \o <<[t |-> "stats", matches |-> st.matches,
                     files |-> st.files, lines |-> st.lines],
                    Tok("FOOTER")>>

\* the for loop: pull, present, pull again, until the generator ends
RECURSIVE PresentLoop(_, _, _)
PresentLoop(m, fsys, p) ==
    LET m1 == RunToYield([m EXCEPT !.g = Resume(@)], fsys)
    IN  IF m1.g.pc = "done"
        THEN [out |-> PresentEnd(p, m1.st), indexed |-> TRUE,
              scanned |-> m1.g.files, stats |-> m1.st]
        ELSE PresentLoop(m1, fsys, PresentResult(p, m1.out))

\* the header, the title and the form that echo the query
PageTop(query) ==
    <<Tok("HEADER"), [t |-> "<h1>results</h1>", query |-> query],
      [t |-> "<form>", query |-> query]>>

print_search_results(fsys, query) ==
    PresentLoop([g |-> [IdleGen EXCEPT !.pc = "created", !.arg = query,
                                       !.query = query],
                 st |-> NewStats, out |-> NoResult],
                fsys, NewPresenter(PageTop(query)))

search_page_blank_query(fsys, q) ==
    print_search_results(fsys, IF q = None THEN Empty ELSE q)

search_page(fsys, q) ==
    IF q = None
    THEN [out |-> print_search_form, indexed |-> FALSE, scanned |-> Empty,
          stats |-> NewStats]
    ELSE print_search_results(fsys, q)

-----------------------------------------------------------------------------
(* The file system around the base directory: the base directory is the    *)
(* directory "logs" of the root, which also holds the file "pw".           *)

N_logs == <<"l", "o", "g", "s">>
N_pw   == <<"p", "w">>

DirNode(d)     == [kind |-> "dir", dir |-> d, name |-> Empty]
FileNode(d, n) == [kind |-> "file", dir |-> d, name |-> n]
Missing        == [kind |-> "missing", dir |-> "-", name |-> Empty]

\* the stylesheet asset CSS_FILE of the package
CssNode == FileNode("package", N_irclogcss)

FirstSlash(s) == CHOOSE i \in 1..Len(s) : s[i] = "/" /\ \A j \in 1..(i - 1) : s[j] # "/"

RECURSIVE Components(_)
Components(s) ==
    IF ~HasChar(s, "/") THEN <<s>>
    ELSE LET i == FirstSlash(s)
         IN  <<SubSeq(s, 1, i - 1)>> \o Components(SubSeq(s, i + 1, Len(s)))

\* one component of a path looked up in a node
Lookup(fsys, node, c) ==
    IF node.kind # "dir" THEN Missing
    ELSE IF c = Empty \/ c = <<".">> THEN node
    ELSE IF c = <<".", ".">> THEN DirNode("root")
    ELSE IF node.dir = "root"
         THEN IF c = N_logs THEN DirNode("base")
              ELSE IF c = N_pw THEN FileNode("root", c)
              ELSE Missing
    ELSE IF c \in Names /\ fsys[c].present THEN FileNode("base", c)
    ELSE Missing

RECURSIVE Walk(_, _, _)
Walk(fsys, node, cs) ==
    IF cs = Empty THEN node
    ELSE Walk(fsys, Lookup(fsys, node, Head(cs)), Tail(cs))

\* what os.path.join(logfile_path, path) names
Resolve(fsys, path) ==
    IF path # Empty /\ path[1] = "/"
    THEN Walk(fsys, DirNode("root"), Components(path))
    ELSE Walk(fsys, DirNode("base"), Components(path))

\* one open() call: the node it names; it raises IOError unless that is a file
OpenCall(fsys, path) == [path |-> path, node |-> Resolve(fsys, path)]

OpenCss(css) == [path |-> <<"CSS_FILE">>,
                 node |-> IF css THEN CssNode ELSE Missing]

Opened(call) == call.node.kind = "file"

-----------------------------------------------------------------------------
(* irclogserver.get_path and application *)

\* PATH_INFO values; NoPathInfo stands for an environ without the key
NoPathInfo == <<"unset">>

Slash(path) == <<"/">> \o path

PathInfos ==
    {NoPathInfo, Empty, Slash(Empty)}
    \cup {Slash(n) : n \in Names}
    \cup {Slash(N_log2 \o DotHtml),
          Slash(<<".">>), Slash(<<".", ".">>),
          Slash(<<".">> \o DotHtml), Slash(<<".", ".">> \o DotHtml),
          Slash(<<"a", "/", "b">>), Slash(<<"a", "\\", "b">>),
          Slash(<<".", ".", "/">> \o N_pw), Slash(Slash(N_pw)),
          <<"x">> \o N_log1}

\* the query of the form: None when the form has no field q
FormQueries == {None, Q_bo}

get_path_slash_only(path_info) ==
    LET raw  == IF path_info = NoPathInfo THEN <<"/">> ELSE path_info
        path == IF raw = Empty THEN Empty ELSE Tail(raw)
    IN  IF HasChar(path, "/") THEN None
        ELSE IF path # Empty THEN path ELSE N_indexhtml

get_path_no_index(path_info) ==
    LET raw  == IF path_info = NoPathInfo THEN <<"/">> ELSE path_info
        path == IF raw = Empty THEN Empty ELSE Tail(raw)
    IN  IF HasChar(path, "/") \/ HasChar(path, "\\") THEN None
        ELSE path

get_path_unchecked(path_info) ==
    LET raw  == IF path_info = NoPathInfo THEN <<"/">> ELSE path_info
        path == IF raw = Empty THEN Empty ELSE Tail(raw)
    IN  IF path # Empty THEN path ELSE N_indexhtml

get_path(path_info) ==
    LET raw  == IF path_info = NoPathInfo THEN <<"/">> ELSE path_info
        path == IF raw = Empty THEN Empty ELSE Tail(raw)
    IN  IF HasChar(path, "/") \/ HasChar(path, "\\") THEN None
        ELSE IF path # Empty THEN path ELSE N_indexhtml

Literal(text) == [kind |-> "literal", text |-> text]

\* headers["Content-Type"] = content_type; sorted(headers.items());
\* start_response(status, headers); return result
Respond(status, content_type, location, body, opens, search) ==
    [calls |-> 1, raised |-> FALSE, status |-> status,
     headers |-> IF location = None
                 THEN <<<<"Content-Type", content_type>>>>
                 ELSE <<<<"Content-Type", content_type>>,
                        <<"Location", location>>>>,
     body |-> body, opens |-> opens,
     indexed |-> search.indexed, scanned |-> search.scanned]

NoSearch == [indexed |-> FALSE, scanned |-> Empty]

\* an exception leaves application(): start_response is never called
Raise(opens) ==
    [calls |-> 0, raised |-> TRUE, status |-> "", headers |-> Empty,
     body |-> Literal(""), opens |-> opens,
     indexed |-> FALSE, scanned |-> Empty]

NotFound(opens) ==
    Respond("404 Not Found", "text/plain", None, Literal("Not found"),
            opens, NoSearch)

\* path == 'search'
ServeSearch(fsys, q) ==
    LET page == search_page(fsys, q)
    IN  Respond("200 Ok", "text/html; charset=UTF-8", None,
                [kind |-> "page", out |-> page.out], Empty, page)

\* path == 'irclog.css'
ServeStylesheet(css) ==
    LET call == OpenCss(css)
    IN  IF Opened(call)
        THEN Respond("200 Ok", "text/css", None,
                     [kind |-> "file", node |-> call.node, how |-> "raw"],
                     <<call>>, NoSearch)
        ELSE NotFound(<<call>>)

ServeExistingAnyCase(path, call) ==
    IF EndsWith(Lower(path), DotCss)
    THEN Respond("200 Ok", "text/css", None,
                 [kind |-> "file", node |-> call.node, how |-> "raw"],
                 <<call>>, NoSearch)
    ELSE IF EndsWith(Lower(path), DotLog) \/ EndsWith(Lower(path), DotTxt)
    THEN Respond("200 Ok", "text/plain; charset=UTF-8", None,
                 [kind |-> "file", node |-> call.node, how |-> "recoded"],
                 <<call>>, NoSearch)
    ELSE Respond("200 Ok", "text/html; charset=UTF-8", None,
                 [kind |-> "file", node |-> call.node, how |-> "raw"],
                 <<call>>, NoSearch)

\* the else clause of the try: the file was read
ServeExisting(path, call) ==
    IF EndsWith(path, DotCss)
    THEN Respond("200 Ok", "text/css", None,
                 [kind |-> "file", node |-> call.node, how |-> "raw"],
                 <<call>>, NoSearch)
    ELSE IF EndsWith(path, DotLog) \/ EndsWith(path, DotTxt)
    THEN Respond("200 Ok", "text/plain; charset=UTF-8", None,
                 [kind |-> "file", node |-> call.node, how |-> "recoded"],
                 <<call>>, NoSearch)
    ELSE Respond("200 Ok", "text/html; charset=UTF-8", None,
                 [kind |-> "file", node |-> call.node, how |-> "raw"],
                 <<call>>, NoSearch)

\* convert_irc_log(LogParser(f), XHTMLTableStyle(buf), title, ..., searchbox=True)
convert_irc_log(fsys, node, title) ==
    [kind |-> "file", node |-> node, how |-> "rendered", title |-> title,
     events |-> IF node.dir = "base" THEN fsys[node.name].events ELSE Empty,
     searchbox |-> TRUE]

ServeMissingStripFour(fsys, path, call) ==
    IF path = N_indexhtml
    THEN Respond("302 Found", "text/plain", <<"/search">>,
                 Literal("Try /search"), <<call>>, NoSearch)
    ELSE IF EndsWith(path, DotHtml)
    THEN LET source == SubSeq(path, 1, Len(path) - 4)
             call2  == OpenCall(fsys, source)
         IN  IF Opened(call2)
             THEN Respond("200 Ok", "text/html; charset=UTF-8", None,
                          convert_irc_log(fsys, call2.node, source),
                          <<call, call2>>, NoSearch)
             ELSE Raise(<<call, call2>>)
    ELSE NotFound(<<call>>)

\* the except IOError clause of the try: the file could not be read
ServeMissing(fsys, path, call) ==
    IF path = N_indexhtml
    THEN Respond("302 Found", "text/plain", <<"/search">>,
                 Literal("Try /search"), <<call>>, NoSearch)
    ELSE IF EndsWith(path, DotHtml)
    THEN LET source == SubSeq(path, 1, Len(path) - 5)
             call2  == OpenCall(fsys, source)
         IN  IF Opened(call2)
             THEN Respond("200 Ok", "text/html; charset=UTF-8", None,
                          convert_irc_log(fsys, call2.node, source),
                          <<call, call2>>, NoSearch)
             ELSE Raise(<<call, call2>>)
    ELSE NotFound(<<call>>)

ServeFile(fsys, path) ==
    LET call == OpenCall(fsys, path)
    IN  IF Opened(call) THEN ServeExisting(path, call)
        ELSE ServeMissing(fsys, path, call)

application_files_first(fsys, css, path_info, q) ==
    LET path == get_path(path_info)
    IN  IF path = None THEN NotFound(Empty)
        ELSE IF Opened(OpenCall(fsys, path)) THEN ServeFile(fsys, path)
        ELSE IF path = N_search THEN ServeSearch(fsys, q)
        ELSE IF path = N_irclogcss THEN ServeStylesheet(css)
        ELSE ServeFile(fsys, path)

application(fsys, css, path_info, q) ==
    LET path == get_path(path_info)
    IN  IF path = None THEN NotFound(Empty)
        ELSE IF path = N_search THEN ServeSearch(fsys, q)
        ELSE IF path = N_irclogcss THEN ServeStylesheet(css)
        ELSE ServeFile(fsys, path)

\* one request handled from start to end
Request(path_info, q) ==
    /\ req' = [path_info |-> path_info, q |-> q]
    /\ resp' = application(fs, cssPresent, path_info, q)
    /\ UNCHANGED <<fs, cssPresent, gen, stats, yielded, pres>>

NoResponse == [calls |-> 0, raised |-> FALSE, status |-> "", headers |-> Empty,
               body |-> Literal(""), opens |-> Empty,
               indexed |-> FALSE, scanned |-> Empty]

\* the base directory holds at most MaxPresent entries; a transcript holds
\* one event of each kind
Init ==
    /\ \E present \in SUBSET Names :
          /\ Cardinality(present) <= MaxPresent
          /\ fs = [n \in Names |->
                     IF n \notin present THEN Absent
                     ELSE IF n \in CorpusNames THEN File(FixedEvents)
                     ELSE File(Empty)]
    /\ cssPresent \in BOOLEAN
    /\ gen = [r \in Runs |-> IdleGen]
    /\ stats = [r \in Runs |-> NewStats]
    /\ yielded = [r \in Runs |-> Empty]
    /\ req = NoRequest
    /\ resp = NoResponse
    /\ pres = NoPresenter

Next == \E path_info \in PathInfos : \E q \in FormQueries : Request(path_info, q)

Spec == Init /\ [][Next]_vars

-----------------------------------------------------------------------------
(* irclogsearch.wsgi: the handler of the search module; its get_path is the
   same function as irclogserver.get_path *)

\* content_type as set before the try of the last branch
TypeByName(path) ==
    IF EndsWith(path, DotLog) \/ EndsWith(path, DotTxt) THEN "text/plain"
    ELSE IF EndsWith(path, DotCss) THEN "text/css"
    ELSE "text/html; charset=UTF-8"

wsgi(fsys, css, path_info, q) ==
    LET path == get_path(path_info)
    IN  IF path = None
        THEN Respond("404 Not Found", "text/html; charset=UTF-8", None,
                     Literal("Not found"), Empty, NoSearch)
        ELSE IF path = N_search THEN ServeSearch(fsys, q)
        ELSE IF path = N_irclogcss
        THEN LET call == OpenCss(css)
             IN  IF Opened(call)
                 THEN Respond("200 Ok", "text/css", None,
                              [kind |-> "file", node |-> call.node,
                               how |-> "raw"], <<call>>, NoSearch)
                 ELSE Respond("404 Not Found", "text/css", None,
                              Literal("Not found"), <<call>>, NoSearch)
        ELSE LET call == OpenCall(fsys, path)
             IN  IF Opened(call)
                 THEN Respond("200 Ok", TypeByName(path), None,
                              [kind |-> "file", node |-> call.node,
                               how |-> "raw"], <<call>>, NoSearch)
                 ELSE IF path = N_indexhtml
                 THEN Respond("302 Found", TypeByName(path), <<"/search">>,
                              Literal("Try /search"), <<call>>, NoSearch)
                 ELSE Respond("404 Not Found", TypeByName(path), None,
                              Literal("Not found"), <<call>>, NoSearch)

\* one request handled by irclogsearch.wsgi
WsgiRequest(path_info, q) ==
    /\ req' = [path_info |-> path_info, q |-> q]
    /\ resp' = wsgi(fs, cssPresent, path_info, q)
    /\ UNCHANGED <<fs, cssPresent, gen, stats, yielded, pres>>

NextWsgi ==
    \E path_info \in PathInfos : \E q \in FormQueries : WsgiRequest(path_info, q)

SpecWsgi == Init /\ [][NextWsgi]_vars

-----------------------------------------------------------------------------
(* A search run driven by its consumer *)

\* a corpus: the dated transcripts hold at most MaxEvents events together
InitSearch ==
    /\ \E all \in Contents(MaxEvents) :
       \E i \in 0..Len(all) :
       \E j \in i..Len(all) :
       \E p \in [CorpusNames -> BOOLEAN] :
          /\ i > 0 => p[N_log1]
          /\ j > i => p[N_log2]
          /\ Len(all) > j => p[N_log2b]
          /\ fs = [n \in Names |->
                     IF n \in CorpusNames /\ p[n]
                     THEN CASE n = N_log1 -> File(Stamp(SubSeq(all, 1, i)))
                            [] n = N_log2 -> File(Stamp(SubSeq(all, i + 1, j)))
                            [] n = N_log2b ->
                                 File(Stamp(SubSeq(all, j + 1, Len(all))))
                            [] OTHER -> File(FixedEvents)
                     ELSE Absent]
    /\ cssPresent = TRUE
    /\ gen = [r \in Runs |-> IdleGen]
    /\ stats = [r \in Runs |-> NewStats]
    /\ yielded = [r \in Runs |-> Empty]
    /\ req = NoRequest
    /\ resp = NoResponse
    /\ pres = NoPresenter

NextSearch ==
    \/ \E q \in Queries : SearchCall(1, q)
    \/ Pull(1)
    \/ GenClose(1)

SpecSearch == InitSearch /\ [][NextSearch]_vars

-----------------------------------------------------------------------------
(* A search run followed statement by statement *)

\* the generator body advances by one step
BodyStep(r) ==
    /\ gen[r].pc \in {"created", "nextfile", "open", "events"}
    /\ LET m == GenStep([g |-> gen[r], st |-> stats[r], out |-> NoResult], fs)
       IN  /\ gen' = [gen EXCEPT ![r] = m.g]
           /\ stats' = [stats EXCEPT ![r] = m.st]
           /\ yielded' = [yielded EXCEPT ![r] =
                            IF m.g.pc = "yield" THEN Append(@, m.out) ELSE @]
    /\ UNCHANGED <<fs, cssPresent, req, resp, pres>>

\* the consumer asks for the next result: the body goes on after the yield
ResumeStep(r) ==
    /\ gen[r].pc = "yield"
    /\ gen' = [gen EXCEPT ![r] = Resume(@)]
    /\ UNCHANGED <<fs, cssPresent, stats, yielded, req, resp, pres>>

NextSteps ==
    \/ \E q \in Queries : SearchCall(1, q)
    \/ BodyStep(1)
    \/ ResumeStep(1)
    \/ GenClose(1)

SpecSteps == InitSearch /\ [][NextSteps]_vars

-----------------------------------------------------------------------------
(* Two search runs over one corpus, their pulls interleaved *)

\* a corpus of dated transcripts holding at most MaxEvents events together
InitPair ==
    /\ \E all \in Contents(MaxEvents) :
       \E i \in 0..Len(all) :
       \E j \in i..Len(all) :
       \E p \in [DatedLogs -> BOOLEAN] :
          /\ i > 0 => p[N_log1]
          /\ j > i => p[N_log2]
          /\ Len(all) > j => p[N_log2b]
          /\ fs = [n \in Names |->
                     IF n \in DatedLogs /\ p[n]
                     THEN CASE n = N_log1 -> File(Stamp(SubSeq(all, 1, i)))
                            [] n = N_log2 -> File(Stamp(SubSeq(all, i + 1, j)))
                            [] OTHER -> File(Stamp(SubSeq(all, j + 1, Len(all))))
                     ELSE Absent]
    /\ cssPresent = TRUE
    /\ gen = [r \in Runs |-> IdleGen]
    /\ stats = [r \in Runs |-> NewStats]
    /\ yielded = [r \in Runs |-> Empty]
    /\ req = NoRequest
    /\ resp = NoResponse
    /\ pres = NoPresenter

\* the queries of the two runs
PairQueries == {Q_empty, Q_bo}

NextPair ==
    \E r \in Runs :
        \/ \E q \in PairQueries : SearchCall(r, q)
        \/ Pull(r)

SpecPair == InitPair /\ [][NextPair]_vars

-----------------------------------------------------------------------------
(* Properties of search_irc_logs *)

\* the files LogFileIndex hands to the search
IndexedFiles == {n \in Names : fs[n].present /\ GlobMatch(n) /\ DateOf(n) # 0}

\* the flattened text of an event as the specification words it
FlattenedText(ev) ==
    CASE ev.kind = "COMMENT" -> ev.info[1] \o <<" ">> \o ev.info[2]
      [] ev.kind = "NICKCHANGE" -> ev.info[1]
      [] OTHER -> ev.info

\* t contains q as a substring when case is ignored
ContainsIgnoringCase(t, q) ==
    \E i \in 0..(Len(t) - Len(q)) :
        \A k \in 1..Len(q) : LowerChar(t[i + k]) = LowerChar(q[k])

Exhausted(r) == gen[r].pc = "done"

\* the event of the corpus a result was made from
SourceOf(res) == <<res.filename, res.time>>

\* C1: a search consumed to its end has yielded exactly the events of the
\* indexed files whose flattened text contains the query, case ignored:
\* every result is such an event, carried unchanged, none is yielded twice,
\* and no such event is left out.
C1_ExactlyTheMatches ==
    \A r \in Runs :
        Exhausted(r) =>
            LET q   == gen[r].arg
                out == yielded[r]
            IN  /\ \A k \in 1..Len(out) :
                       /\ out[k].filename \in IndexedFiles
                       /\ out[k].time \in 1..Len(fs[out[k].filename].events)
                       /\ LET ev == fs[out[k].filename].events[out[k].time]
                          IN  /\ out[k].event = ev.kind
                              /\ out[k].info = ev.info
                              /\ ContainsIgnoringCase(FlattenedText(ev), q)
                /\ \A k, l \in 1..Len(out) :
                       SourceOf(out[k]) = SourceOf(out[l]) => k = l
                /\ \A n \in IndexedFiles :
                       \A i \in 1..Len(fs[n].events) :
                           ContainsIgnoringCase(FlattenedText(fs[n].events[i]), q)
                               => \E k \in 1..Len(out) : SourceOf(out[k]) = <<n, i>>

\* an exhausted search for "L B": it matched a comment across nick and text,
\* passed over a nick change, and left a file without a date unindexed
C1_Witness ==
    /\ Exhausted(1)
    /\ gen[1].arg = Q_LB
    /\ Len(yielded[1]) = 1
    /\ yielded[1][1].event = "COMMENT"
    /\ stats[1].lines = 2
    /\ fs[N_nodate].present

\* C9: results come newest first: an earlier result never has an older date
\* than a later one, and two results of one file come in the file's order.
C9_NewestFirst ==
    \A r \in Runs :
        \A k, l \in 1..Len(yielded[r]) :
            k < l =>
                /\ yielded[r][k].date >= yielded[r][l].date
                /\ yielded[r][k].filename = yielded[r][l].filename
                       => yielded[r][k].time < yielded[r][l].time

\* two results of two different days have been pulled
C9_Witness ==
    /\ Len(yielded[1]) = 2
    /\ yielded[1][1].date = 2
    /\ yielded[1][2].date = 1

RECURSIVE SumOfEvents(_)
SumOfEvents(S) ==
    IF S = {} THEN 0
    ELSE LET n == CHOOSE x \in S : TRUE
         IN  Len(fs[n].events) + SumOfEvents(S \ {n})

\* C10: after a search consumed to its end, files is the number of indexed
\* files, lines the sum of their event counts, matches the number of results
\* yielded, and matches <= lines.
C10_StatsAtEnd ==
    \A r \in Runs :
        Exhausted(r) =>
            /\ stats[r].files = Cardinality(IndexedFiles)
            /\ stats[r].lines = SumOfEvents(IndexedFiles)
            /\ stats[r].matches = Len(yielded[r])
            /\ stats[r].matches <= stats[r].lines

\* an exhausted search over two files and two lines with one match
C10_Witness ==
    /\ Exhausted(1)
    /\ stats[1] = [files |-> 2, lines |-> 2, matches |-> 1]

-----------------------------------------------------------------------------
(* Properties of irclogserver.application *)

Handled == req # NoRequest

\* the path of the request: PATH_INFO (default "/") without its first character
ReqPath ==
    IF req.path_info = NoPathInfo \/ req.path_info = Empty THEN Empty
    ELSE Tail(req.path_info)

HasSeparator(path) == HasChar(path, "/") \/ HasChar(path, "\\")

\* the path names an existing file under the base directory
NamesFile(path) == path \in Names /\ fs[path].present

StripHtml(path) ==
    IF EndsWith(path, DotHtml) THEN SubSeq(path, 1, Len(path) - 5) ELSE path

Answered == resp.calls = 1 /\ ~resp.raised

StatusCode ==
    CASE resp.status = "200 Ok" -> 200
      [] resp.status = "302 Found" -> 302
      [] resp.status = "404 Not Found" -> 404
      [] OTHER -> 0

HeaderValues(name) ==
    {resp.headers[i][2] : i \in {j \in 1..Len(resp.headers) : resp.headers[j][1] = name}}

\* the media type of a Content-Type value, without its parameters
MediaTypeOf(v) ==
    CASE v = "text/html; charset=UTF-8" -> "text/html"
      [] v = "text/plain; charset=UTF-8" -> "text/plain"
      [] OTHER -> v

MediaTypes == {MediaTypeOf(v) : v \in HeaderValues("Content-Type")}

NoFileTouched ==
    /\ resp.opens = Empty
    /\ resp.scanned = Empty
    /\ ~resp.indexed

ListMarkup == {"<ul>", "<li>", "</li>", "</ul>", "prefix", "suffix", "event"}

\* C2: a request whose path contains "/" or "\" is answered 404 text/plain,
\* and handling it opens no file and runs no search.
C2_SeparatorRejected ==
    (Handled /\ HasSeparator(ReqPath)) =>
        /\ Answered
        /\ StatusCode = 404
        /\ MediaTypes = {"text/plain"}
        /\ NoFileTouched
        /\ resp.body.kind # "page"

\* the request for "../pw", a file that exists next to the base directory
C2_Witness ==
    /\ req.path_info = Slash(<<".", ".", "/">> \o N_pw)
    /\ Resolve(fs, ReqPath) = FileNode("root", N_pw)
    /\ StatusCode = 404

\* C3: the bytes of a response body come from the stylesheet asset or from a
\* file that is one name directly under the base directory; a search reads
\* only such files.
C3_NoEscape ==
    /\ resp.body.kind = "file" =>
           \/ resp.body.node = CssNode
           \/ /\ resp.body.node.kind = "file"
              /\ resp.body.node.dir = "base"
              /\ NamesFile(resp.body.node.name)
              /\ ~HasSeparator(resp.body.node.name)
    /\ \A i \in 1..Len(resp.scanned) : NamesFile(resp.scanned[i])

\* the request for "...html": the router accepts it, the second open() names
\* the parent of the base directory, and no body is returned
C3_Witness ==
    /\ ReqPath = <<".", ".">> \o DotHtml
    /\ Len(resp.opens) = 2
    /\ resp.opens[2].node = DirNode("root")
    /\ resp.body.kind # "file"

\* C4: a path without separator that is not search, irclog.css or index.html
\* and names no existing file, with or without its trailing ".html", is
\* answered by one start_response call with 404 text/plain and the body
\* "Not found".
C4_NotFound ==
    (/\ Handled
     /\ ReqPath # Empty
     /\ ~HasSeparator(ReqPath)
     /\ ReqPath \notin {N_search, N_irclogcss, N_indexhtml}
     /\ ~NamesFile(ReqPath)
     /\ ~NamesFile(StripHtml(ReqPath))) =>
        /\ resp.calls = 1
        /\ StatusCode = 404
        /\ MediaTypes = {"text/plain"}
        /\ resp.body = Literal("Not found")

\* C5: the empty path is handled as index.html; without an index.html the
\* answer is 302 text/plain with Location: /search; a response has a Location
\* header exactly when its status is 302.
C5_IndexRedirect ==
    Handled =>
        /\ ReqPath = Empty =>
               /\ resp = application(fs, cssPresent, Slash(N_indexhtml), req.q)
               /\ ~NamesFile(N_indexhtml) =>
                      /\ Answered
                      /\ StatusCode = 302
                      /\ HeaderValues("Location") = {<<"/search">>}
                      /\ MediaTypes = {"text/plain"}
        /\ Answered => (HeaderValues("Location") # {} <=> StatusCode = 302)

\* the empty path asked of a directory without index.html
C5_Witness ==
    /\ Handled
    /\ ReqPath = Empty
    /\ ~NamesFile(N_indexhtml)
    /\ StatusCode = 302

\* the path as routed: the empty path stands for index.html
RoutedPath == IF ReqPath = Empty THEN N_indexhtml ELSE ReqPath

\* C6 as claimed: an existing file is answered 200 with text/css for .css,
\* text/plain for .log and .txt, and octet-stream for anything else.
C6_OctetStream ==
    (Handled /\ ~HasSeparator(ReqPath) /\ NamesFile(RoutedPath)) =>
        /\ Answered
        /\ StatusCode = 200
        /\ MediaTypes =
               {IF EndsWith(RoutedPath, DotCss) THEN "text/css"
                ELSE IF EndsWith(RoutedPath, DotLog) \/ EndsWith(RoutedPath, DotTxt)
                THEN "text/plain"
                ELSE "application/octet-stream"}

\* C6: an existing file, other than the reserved irclog.css, is answered 200
\* with a content type chosen by the case-sensitive extension of the path:
\* text/css for .css, text/plain for .log and .txt, text/html for any other.
C6_TypeByExtension ==
    (/\ Handled
     /\ ~HasSeparator(ReqPath)
     /\ RoutedPath # N_irclogcss
     /\ NamesFile(RoutedPath)) =>
        /\ Answered
        /\ StatusCode = 200
        /\ MediaTypes =
               {IF EndsWith(RoutedPath, DotCss) THEN "text/css"
                ELSE IF EndsWith(RoutedPath, DotLog) \/ EndsWith(RoutedPath, DotTxt)
                THEN "text/plain"
                ELSE "text/html"}

\* the existing file a.CSS is served, and not as a stylesheet
C6_Witness ==
    /\ ReqPath = N_CSS
    /\ NamesFile(N_CSS)
    /\ StatusCode = 200
    /\ resp.body = [kind |-> "file", node |-> FileNode("base", N_CSS), how |-> "raw"]

\* the body is the transcript `source` rendered on the fly
RenderedFrom(source) ==
    /\ resp.body.kind = "file"
    /\ resp.body.how = "rendered"
    /\ resp.body.node = FileNode("base", source)
    /\ resp.body.events = fs[source].events
    /\ resp.body.searchbox

\* C7 as claimed: every path that names no existing file, but does once its
\* trailing ".html" is stripped, is answered 200 text/html with the transcript
\* rendered; and only a path that names no existing file is rendered.
C7_RenderAlways ==
    Handled =>
        /\ (/\ ~HasSeparator(ReqPath)
            /\ ~NamesFile(RoutedPath)
            /\ NamesFile(StripHtml(RoutedPath))) =>
               /\ Answered
               /\ StatusCode = 200
               /\ MediaTypes = {"text/html"}
               /\ RenderedFrom(StripHtml(RoutedPath))
        /\ (resp.body.kind = "file" /\ resp.body.how = "rendered") =>
               ~NamesFile(RoutedPath)

\* C7: every path other than index.html that names no existing file, but
\* does once its trailing ".html" is stripped, is answered 200 text/html with
\* the transcript rendered; and only a path that names no existing file is
\* rendered.
C7_RenderOnTheFly ==
    Handled =>
        /\ (/\ ~HasSeparator(ReqPath)
            /\ RoutedPath # N_indexhtml
            /\ ~NamesFile(RoutedPath)
            /\ NamesFile(StripHtml(RoutedPath))) =>
               /\ Answered
               /\ StatusCode = 200
               /\ MediaTypes = {"text/html"}
               /\ RenderedFrom(StripHtml(RoutedPath))
        /\ (resp.body.kind = "file" /\ resp.body.how = "rendered") =>
               ~NamesFile(RoutedPath)

\* 1.log.html asked for while only 1.log exists
C7_Witness ==
    /\ ReqPath = N_log1html
    /\ ~NamesFile(N_log1html)
    /\ NamesFile(N_log1)
    /\ RenderedFrom(N_log1)
    /\ Len(resp.body.events) = 3

\* C8: /search without a field q is answered 200 text/html with the bare
\* form: no list markup, no statistics line, and no transcript is indexed,
\* opened or scanned.
C8_BareForm ==
    (Handled /\ ReqPath = N_search /\ req.q = None) =>
        /\ Answered
        /\ StatusCode = 200
        /\ MediaTypes = {"text/html"}
        /\ resp.body.kind = "page"
        /\ \E i \in 1..Len(resp.body.out) : resp.body.out[i].t = "<form>"
        /\ \A i \in 1..Len(resp.body.out) :
               resp.body.out[i].t \notin ListMarkup \cup {"stats"}
        /\ NoFileTouched

\* /search without q asked of a directory that holds a transcript
C8_Witness ==
    /\ Handled
    /\ ReqPath = N_search
    /\ req.q = None
    /\ IndexedFiles # {}
    /\ resp.body.kind = "page"

-----------------------------------------------------------------------------
(* Properties of a search that is not consumed to its end *)

\* the result pulled last
LastYielded(r) == yielded[r][Len(yielded[r])]

\* the place of a file in the newest-first list the run walks
PositionOf(r, n) ==
    CHOOSE i \in 1..Len(gen[r].files) : gen[r].files[i] = n

\* C11: after K results have been pulled, and also when the consumer then
\* stops, files is the position of the file that holds the K-th match, lines
\* the number of events up to and including that match, and no other file
\* is open: nothing after the match has been scanned.
C11_NoOverScan ==
    \A r \in Runs :
        (gen[r].pc \in {"yield", "closed"} /\ Len(yielded[r]) >= 1) =>
            LET last == LastYielded(r)
                pos  == PositionOf(r, last.filename)
            IN  /\ stats[r].files = pos
                /\ stats[r].lines =
                       SumOfEvents({gen[r].files[i] : i \in 1..(pos - 1)})
                           + last.time
                /\ stats[r].matches = Len(yielded[r])
                /\ gen[r].open \subseteq {last.filename}
                /\ gen[r].fi = pos
                /\ gen[r].ei = last.time

\* the consumer stopped after the first result: the second line of the
\* newest file and the older file were never scanned
C11_Witness ==
    /\ gen[1].pc = "closed"
    /\ Len(yielded[1]) = 1
    /\ Len(gen[1].files) = 2
    /\ Len(fs[gen[1].files[1]].events) = 2
    /\ stats[1] = [files |-> 1, lines |-> 1, matches |-> 1]

\* a step of one run: a pull, or the consumer dropping the generator
SameRunStep(r) ==
    /\ gen[r].pc \in {"created", "yield"}
    /\ gen'[r].pc \in {"yield", "done", "closed"}

\* C19: at every yield the counters agree with the work done so far: matches
\* is the number of results yielded, matches <= lines, files >= 1; and from
\* one pull to the next no counter decreases or is reset.
C19_StatsAtEveryYield ==
    [][\A r \in Runs :
          /\ gen'[r].pc = "yield" =>
                 /\ stats'[r].matches = Len(yielded'[r])
                 /\ stats'[r].matches <= stats'[r].lines
                 /\ stats'[r].files >= 1
          /\ SameRunStep(r) =>
                 /\ stats'[r].files >= stats[r].files
                 /\ stats'[r].lines >= stats[r].lines
                 /\ stats'[r].matches >= stats[r].matches]_vars

\* the second result of a run has been yielded
C19_Witness ==
    /\ gen[1].pc = "yield"
    /\ Len(yielded[1]) = 2
    /\ stats[1].matches = 2
    /\ stats[1].files = 2

-----------------------------------------------------------------------------
(* Properties of the file handles of a search *)

\* C16: a run never holds more than one transcript open: while the rows of
\* a file are read, that file alone is open, and its handle is closed after
\* its last row and before the next file is opened.
C16_OneHandle ==
    \A r \in Runs :
        /\ Cardinality(gen[r].open) <= 1
        /\ gen[r].pc \in {"events", "yield"} =>
               gen[r].open = {gen[r].files[gen[r].fi]}
        /\ gen[r].pc \in {"nextfile", "open", "done"} =>
               gen[r].open = {}

\* the rows of the newest file have been read and the second file is about
\* to be opened
C16_Witness ==
    /\ gen[1].pc = "open"
    /\ gen[1].fi = 2
    /\ stats[1].lines >= 1
    /\ gen[1].open = {}

-----------------------------------------------------------------------------
(* Properties of two runs *)

\* a run with nothing else going on, consumed to its end: its results and
\* its final stats
RECURSIVE Consume(_, _)
Consume(m, acc) ==
    LET m1 == RunToYield([m EXCEPT !.g = Resume(@)], fs)
    IN  IF m1.g.pc = "done" THEN [results |-> acc, stats |-> m1.st]
        ELSE Consume(m1, Append(acc, m1.out))

RunAlone(q) ==
    Consume([g |-> [IdleGen EXCEPT !.pc = "created", !.arg = q, !.query = q],
             st |-> NewStats, out |-> NoResult], Empty)

IsPrefix(s, t) == Len(s) <= Len(t) /\ SubSeq(t, 1, Len(s)) = s

Running(r) == gen[r].pc \in {"created", "yield", "done"}

-----------------------------------------------------------------------------
(* print_search_results, one iteration of its for loop per step *)

InitPresent ==
    /\ \E all \in Contents(MaxShown) :
       \E i \in 0..Len(all) :
       \E j \in i..Len(all) :
          fs = [n \in Names |->
                  CASE n = N_log2 -> File(Stamp(SubSeq(all, 1, i)))
                    [] n = N_log2b -> File(Stamp(SubSeq(all, i + 1, j)))
                    [] n = N_log1 -> File(Stamp(SubSeq(all, j + 1, Len(all))))
                    [] OTHER -> Absent]
    /\ cssPresent = TRUE
    /\ gen = [r \in Runs |-> IdleGen]
    /\ stats = [r \in Runs |-> NewStats]
    /\ yielded = [r \in Runs |-> Empty]
    /\ req = NoRequest
    /\ resp = NoResponse
    /\ pres = NoPresenter

PresentQueries == {Q_empty, Q_bo}

\* print_search_results(query): everything up to the for statement
PresentCall(q) ==
    /\ pres.pc \in {"idle", "done"}
    /\ gen' = [gen EXCEPT ![1] = [IdleGen EXCEPT !.pc = "created", !.arg = q,
                                                  !.query = q]]
    /\ stats' = [stats EXCEPT ![1] = NewStats]
    /\ yielded' = [yielded EXCEPT ![1] = Empty]
    /\ pres' = [pc |-> "loop", p |-> NewPresenter(PageTop(q)), page |-> Empty]
    /\ UNCHANGED <<fs, cssPresent, req, resp>>

\* one turn of the for statement: the next result and the loop body, or the
\* end of the generator and everything after the loop
PresentNext ==
    /\ pres.pc = "loop"
    /\ LET m == RunToYield([g |-> Resume(gen[1]), st |-> stats[1],
                            out |-> NoResult], fs)
       IN  /\ gen' = [gen EXCEPT ![1] = m.g]
           /\ stats' = [stats EXCEPT ![1] = m.st]
           /\ yielded' = [yielded EXCEPT ![1] =
                            IF m.g.pc = "yield" THEN Append(@, m.out) ELSE @]
           /\ pres' = IF m.g.pc = "yield"
                      THEN [pres EXCEPT !.p = PresentResult(@, m.out)]
                      ELSE [pres EXCEPT !.pc = "done",
                                        !.page = PresentEnd(pres.p, m.st)]
    /\ UNCHANGED <<fs, cssPresent, req, resp>>

NextPresent ==
    \/ \E q \in PresentQueries : PresentCall(q)
    \/ PresentNext

SpecPresent == InitPresent /\ [][NextPresent]_vars

\* print_search_results over transcripts of two dates in which two nicks
\* talk and are renamed
InitColours ==
    /\ \E all \in ShownContents(MaxShown) :
       \E i \in 0..Len(all) :
          fs = [n \in Names |->
                  CASE n = N_log2 -> File(Stamp(SubSeq(all, 1, i)))
                    [] n = N_log1 -> File(Stamp(SubSeq(all, i + 1, Len(all))))
                    [] OTHER -> Absent]
    /\ cssPresent = TRUE
    /\ gen = [r \in Runs |-> IdleGen]
    /\ stats = [r \in Runs |-> NewStats]
    /\ yielded = [r \in Runs |-> Empty]
    /\ req = NoRequest
    /\ resp = NoResponse
    /\ pres = NoPresenter

NextColours ==
    \/ PresentCall(Q_empty)
    \/ PresentNext

SpecColours == InitColours /\ [][NextColours]_vars

-----------------------------------------------------------------------------
(* C12: one list item per date *)

\* the document as far as print_search_results has written it
Written == IF pres.pc = "done" THEN pres.page ELSE pres.p.out

IsItem(tok) == tok.t = "<li>"

\* the dates of the list items opened, in the order they were opened
ItemDates(out) ==
    LET items == SelectSeq(out, IsItem)
    IN  [i \in 1..Len(items) |-> items[i].date]

\* the dates of a result stream, each at its first appearance
FirstDates(rs) ==
    LET first == {i \in 1..Len(rs) :
                     \A j \in 1..(i - 1) : rs[j].date # rs[i].date}
        rank(i) == Cardinality({j \in first : j <= i})
    IN  [k \in 1..Cardinality(first) |->
            rs[CHOOSE i \in first : rank(i) = k].date]

DistinctDates(rs) == {rs[i].date : i \in 1..Len(rs)}

\* C12: print_search_results opens as many date list items as there are
\* distinct dates among the results, in the order in which the dates first
\* appear in the result stream, which is newest first
C12_ItemPerDate ==
    pres.pc \in {"loop", "done"} =>
        LET dates == ItemDates(Written)
        IN  /\ Len(dates) = Cardinality(DistinctDates(yielded[1]))
            /\ dates = FirstDates(yielded[1])
            /\ \A i \in 1..Len(dates) :
               \A j \in (i + 1)..Len(dates) : dates[i] > dates[j]

\* a finished search over three files of two dates, with results from each
C12_Witness ==
    /\ pres.pc = "done"
    /\ {yielded[1][i].filename : i \in 1..Len(yielded[1])}
           = {N_log1, N_log2, N_log2b}
    /\ ItemDates(pres.page) = <<2, 1>>

-----------------------------------------------------------------------------
(* C13: the list markup is balanced *)

\* nothing written yet: no list, no item, no renderer group open
Unopened == [lists |-> 0, ul |-> FALSE, li |-> FALSE, group |-> FALSE,
             events |-> 0, ok |-> TRUE]

\* reading one more token of the document
Read(s, tok) ==
    CASE tok.t = "<ul>" ->
           [s EXCEPT !.ok = @ /\ s.lists = 0 /\ ~s.ul, !.ul = TRUE,
                     !.lists = @ + 1]
      [] tok.t = "<li>" ->
           [s EXCEPT !.ok = @ /\ s.ul /\ ~s.li /\ ~s.group, !.li = TRUE]
      [] tok.t = "prefix" ->
           [s EXCEPT !.ok = @ /\ s.li /\ ~s.group, !.group = TRUE]
      [] tok.t = "event" ->
           [s EXCEPT !.ok = @ /\ s.group, !.events = @ + 1]
      [] tok.t = "suffix" ->
           [s EXCEPT !.ok = @ /\ s.group, !.group = FALSE]
      [] tok.t = "</li>" ->
           [s EXCEPT !.ok = @ /\ s.li /\ ~s.group, !.li = FALSE]
      [] tok.t = "</ul>" ->
           [s EXCEPT !.ok = @ /\ s.ul /\ ~s.li /\ ~s.group, !.ul = FALSE]
      [] tok.t = "stats" ->
           [s EXCEPT !.ok = @ /\ ~s.ul /\ ~s.li /\ ~s.group]
      [] OTHER -> s

RECURSIVE Scan(_, _)
Scan(out, n) == IF n = 0 THEN Unopened ELSE Read(Scan(out, n - 1), out[n])

HasStats(out) == \E i \in 1..Len(out) : out[i].t = "stats"

\* C13: whatever the result stream, the list is opened once if there is a
\* result and never otherwise, an item is closed before the next one or the
\* end of the list, a renderer prefix is closed by one suffix before its
\* item is closed, every rendered event lies inside a prefix/suffix pair,
\* and nothing is open when the statistics line is printed
C13_Balanced ==
    pres.pc \in {"loop", "done"} =>
        LET s == Scan(Written, Len(Written))
        IN  /\ s.ok
            /\ s.lists = (IF Len(yielded[1]) >= 1 THEN 1 ELSE 0)
            /\ s.events = Len(yielded[1])
            /\ pres.pc = "done" =>
                   /\ HasStats(Written)
                   /\ ~s.ul /\ ~s.li /\ ~s.group

\* a finished page with two date groups, the first holding two events
C13_Witness ==
    /\ pres.pc = "done"
    /\ Len(yielded[1]) = 3
    /\ yielded[1][2].date = 2
    /\ yielded[1][3].date = 1
    /\ Len(SelectSeq(pres.page, LAMBDA tok : tok.t = "suffix")) = 2

-----------------------------------------------------------------------------
(* C17: how long a colour assignment lasts *)

\* the calls of print_html made so far
Shown == pres.p.shown

\* what rendering one result does to a colour map
Colourize(c, result) ==
    CASE result.event = "COMMENT" -> ColourFor(c, result.info[1])
      [] result.event = "NICKCHANGE" ->
           ChangeNick(c, result.info[2], result.info[3])
      [] OTHER -> c

\* the colour map after rendering results from..to with a map that was new
\* before result `from`
RECURSIVE ColoursOver(_, _, _)
ColoursOver(rs, from, to) ==
    IF to < from THEN NewColourizer
    ELSE Colourize(ColoursOver(rs, from, to - 1), rs[to])

\* the first result of the date group result k lies in
GroupStart(rs, k) ==
    CHOOSE i \in 1..k :
        /\ \A j \in i..k : rs[j].date = rs[k].date
        /\ (i > 1 => rs[i - 1].date # rs[k].date)

\* the statement as claimed: the colour map a result is rendered with
\* depends on the results of its own date group only
C17_ResetAtBoundary ==
    pres.pc \in {"loop", "done"} =>
        \A k \in 1..Len(Shown) :
            Shown[k].colours =
                ColoursOver(yielded[1], GroupStart(yielded[1], k), k).colours

\* C17 (amended): the colour assignment is created once per call of
\* print_search_results and never reset: every result is rendered with the
\* colour map built from all results rendered before it in the same search,
\* in its own date group and in every earlier one
C17_ColoursPersist ==
    pres.pc \in {"loop", "done"} =>
        /\ Len(Shown) = Len(yielded[1])
        /\ \A k \in 1..Len(Shown) :
              /\ Shown[k].result = yielded[1][k]
              /\ Shown[k].colours = ColoursOver(yielded[1], 1, k).colours
              /\ Shown[k].result.event = "COMMENT" =>
                    Shown[k].colour = Shown[k].colours[Shown[k].result.info[1]]

\* Bo talks on the newer day, Al on the older one: Al is given the second
\* colour because Bo's assignment outlives the date boundary
C17_Witness ==
    /\ pres.pc = "done"
    /\ Len(Shown) = 2
    /\ Shown[1].result.date = 2 /\ Shown[1].result.info[1] = Nick_Bo
    /\ Shown[1].result.event = "COMMENT"
    /\ Shown[2].result.date = 1 /\ Shown[2].result.info[1] = Nick_Al
    /\ Shown[2].result.event = "COMMENT"
    /\ Shown[2].colour = 2

-----------------------------------------------------------------------------
(* C18: a NICKCHANGE moves the colour of the old nick to the new nick *)

\* the colour map print_html call k found
ColoursBefore(k) ==
    IF k = 1 THEN NewColourizer.colours ELSE Shown[k - 1].colours

IsRename(k) == Shown[k].result.event = "NICKCHANGE"

OldNick(k) == Shown[k].result.info[2]

NewNick(k) == Shown[k].result.info[3]

\* call k is a NICKCHANGE of a nick that has a colour
MovesColour(k) == IsRename(k) /\ ColoursBefore(k)[OldNick(k)] # 0

\* call j renders a COMMENT by nick n
CommentBy(j, n) ==
    Shown[j].result.event = "COMMENT" /\ Shown[j].result.info[1] = n

\* a call that is no NICKCHANGE leaves every colour where it is
NeverRenames ==
    \A k \in 1..Len(Shown) :
        ~IsRename(k) =>
            \A n \in Nicks :
                ColoursBefore(k)[n] # 0 => Shown[k].colours[n] = ColoursBefore(k)[n]

\* the new nick has the old nick's colour when the server message is written
MovedBeforeRendering ==
    \A k \in 1..Len(Shown) :
        MovesColour(k) =>
            Shown[k].colours[NewNick(k)] = ColoursBefore(k)[OldNick(k)]

\* the statement as claimed: once renamed, every later COMMENT by the new
\* nick has the colour of the old nick
C18_RenameCarries ==
    pres.pc \in {"loop", "done"} =>
        /\ MovedBeforeRendering
        /\ NeverRenames
        /\ \A k \in 1..Len(Shown) :
              MovesColour(k) =>
                  \A j \in (k + 1)..Len(Shown) :
                      CommentBy(j, NewNick(k)) =>
                          Shown[j].colour = ColoursBefore(k)[OldNick(k)]

\* a NICKCHANGE strictly between calls k and j that renames from or to nick n
RenamedBetween(k, j, n) ==
    \E i \in (k + 1)..(j - 1) :
        IsRename(i) /\ n \in {OldNick(i), NewNick(i)}

\* C18 (amended): a NICKCHANGE gives the old nick's colour to the new nick
\* before its server message is written, and a later COMMENT by the new nick
\* has that colour as long as no NICKCHANGE in between renames from or to
\* that nick; a COMMENT or any other event never renames an entry
C18_RenameCarriesUntilRenamed ==
    pres.pc \in {"loop", "done"} =>
        /\ MovedBeforeRendering
        /\ NeverRenames
        /\ \A k \in 1..Len(Shown) :
              MovesColour(k) =>
                  \A j \in (k + 1)..Len(Shown) :
                      (CommentBy(j, NewNick(k))
                       /\ ~RenamedBetween(k, j, NewNick(k))) =>
                          Shown[j].colour = ColoursBefore(k)[OldNick(k)]

\* Bo talks first, then Al; Al becomes Bo, and talks under the new name with
\* Al's colour, the second one
C18_Witness ==
    /\ pres.pc = "done"
    /\ Len(Shown) = 4
    /\ CommentBy(1, Nick_Bo) /\ CommentBy(2, Nick_Al)
    /\ IsRename(3) /\ OldNick(3) = Nick_Al
    /\ CommentBy(4, Nick_Bo)
    /\ Shown[4].colour = 2

-----------------------------------------------------------------------------
(* C20: the reserved names come before the file system *)

\* no open() call of the request went to the base directory
NoBaseOpen ==
    \A i \in 1..Len(resp.opens) :
        resp.opens[i].node.kind = "file" => resp.opens[i].node.dir # "base"

SearchRan ==
    /\ Answered
    /\ StatusCode = 200
    /\ resp.body.kind \in {"page"}
    /\ resp.opens = Empty
    /\ \A i \in 1..Len(resp.scanned) : resp.scanned[i] # N_search

StylesheetServed ==
    /\ Answered
    /\ StatusCode = 200
    /\ MediaTypes = {"text/css"}
    /\ resp.body = [kind |-> "file", node |-> CssNode, how |-> "raw"]

\* the statement as claimed: 'search' always runs the search and
\* 'irclog.css' always serves the stylesheet asset, whatever the base
\* directory holds, and neither opens a file of that name in it
C20_ReservedAlways ==
    /\ (Handled /\ ReqPath = N_search) => SearchRan
    /\ (Handled /\ ReqPath = N_irclogcss) =>
           /\ StylesheetServed
           /\ NoBaseOpen

\* C20 (amended): 'search' always runs the search, and 'irclog.css' is always
\* answered from the stylesheet asset alone: its content when the asset can
\* be read, 404 when it cannot; neither opens a file of that name under
\* the base directory, whether or not there is one
C20_ReservedFirst ==
    /\ (Handled /\ ReqPath = N_search) => SearchRan
    /\ (Handled /\ ReqPath = N_irclogcss) =>
           /\ resp.opens = <<OpenCss(cssPresent)>>
           /\ NoBaseOpen
           /\ cssPresent => StylesheetServed
           /\ ~cssPresent => (Answered /\ StatusCode = 404)

\* the base directory holds a file called irclog.css, and the asset is served
C20_Witness ==
    /\ Handled
    /\ ReqPath = N_irclogcss
    /\ fs[N_irclogcss].present
    /\ cssPresent
    /\ StylesheetServed

-----------------------------------------------------------------------------
(* C15: the error responses of irclogsearch.wsgi *)

\* C15: every response of irclogsearch.wsgi with status 404 or 302 has the
\* content type text/plain
C15_ErrorsPlain ==
    (Handled /\ Answered /\ StatusCode \in {404, 302}) =>
        HeaderValues("Content-Type") = {"text/plain"}

====
